---------------------------- MODULE Spec2Model ----------------------------
(***************************************************************************)
(* Culinary Compass (src/Recipe_app.py): a Streamlit view over a recipe    *)
(* table kept in st.session_state.  Every user interaction re-executes     *)
(* main(): initialize_data(), then the handler of the selected navigation  *)
(* mode.  One step of the model is one such re-execution.                  *)
(*                                                                         *)
(* Representation.  The DataFrame is a sequence of rows in index order,    *)
(* each row a record holding the index label (name) and the five columns.  *)
(* Names and cuisines are strings.  Free text that the code takes apart    *)
(* (the ingredients field) is a sequence of one-character strings, and an  *)
(* ingredient is such a sequence too.  Ratings are in hundredths (the      *)
(* float slider's step is 0.01), so 4.5 is 450.                            *)
(***************************************************************************)
EXTENDS Integers, Sequences, FiniteSets, TLC

VARIABLES
    has_recipes,       \* 'recipes' in st.session_state
    recipes,           \* st.session_state.recipes (<< >> while absent)
    mode,              \* the navigation radio of this run ("" before the first)
    selected_cuisine,  \* Recipe Explorer's selectbox ("" when not shown)
    search,            \* Smart Search's three controls (NoSearch when not shown)
    form,              \* the add-recipe form's fields (NoForm when not shown)
    submitted,         \* st.form_submit_button returned True in this run
    cards,             \* the rows rendered as recipe cards, in order
    message,           \* "none" | "found" | "warning" | "success" | "error"
    cloud,             \* "none" | "image" | "ValueError"
    charts             \* the charts Food Analytics rendered, in order

vars == << has_recipes, recipes, mode, selected_cuisine, search, form,
           submitted, cards, message, cloud, charts >>

---------------------------------------------------------------------------
(* Bounds of the model *)

\* Rows the table may hold: the code never caps it, the model does.
MaxRecipes == 4

---------------------------------------------------------------------------
(* Text helpers: Python's str.split(','), str.strip() and ' '.join *)

Whitespace == {" "}

RECURSIVE lstrip(_)
lstrip(s) ==
    IF s /= << >> /\ Head(s) \in Whitespace THEN lstrip(Tail(s)) ELSE s

RECURSIVE rstrip(_)
rstrip(s) ==
    IF s /= << >> /\ s[Len(s)] \in Whitespace
    THEN rstrip(SubSeq(s, 1, Len(s) - 1))
    ELSE s

strip_none(s) == s

strip(s) == rstrip(lstrip(s))

\* s.split(sep): the pieces between separators; "" splits to [""].
RECURSIVE split_from(_, _, _)
split_from(s, sep, cur) ==
    IF s = << >> THEN << cur >>
    ELSE IF Head(s) = sep THEN << cur >> \o split_from(Tail(s), sep, << >>)
    ELSE split_from(Tail(s), sep, Append(cur, Head(s)))

split(s, sep) == split_from(s, sep, << >>)

\* sep.join(items)
RECURSIVE join(_, _)
join(items, sep) ==
    IF items = << >> THEN << >>
    ELSE IF Len(items) = 1 THEN items[1]
    ELSE items[1] \o << sep >> \o join(Tail(items), sep)

\* [i.strip() for i in ingredients.split(',')]
parse_ingredients(text) ==
    LET parts == split(text, ",")
    IN  [i \in 1..Len(parts) |-> strip(parts[i])]

---------------------------------------------------------------------------
(* The seed table *)

Pasta       == << "P", "a", "s", "t", "a" >>
Eggs        == << "E", "g", "g", "s" >>
Cheese      == << "C", "h", "e", "e", "s", "e" >>
Bacon       == << "B", "a", "c", "o", "n" >>
Chicken     == << "C", "h", "i", "c", "k", "e", "n" >>
Yogurt      == << "Y", "o", "g", "u", "r", "t" >>
Spices      == << "S", "p", "i", "c", "e", "s" >>
TomatoSauce == << "T", "o", "m", "a", "t", "o", " ", "S", "a", "u", "c", "e" >>
Bread       == << "B", "r", "e", "a", "d" >>
Avocado     == << "A", "v", "o", "c", "a", "d", "o" >>
Salt        == << "S", "a", "l", "t" >>
Pepper      == << "P", "e", "p", "p", "e", "r" >>

Difficulties == {"Easy", "Medium", "Hard"}

Seeds ==
    << [name |-> "Spaghetti Carbonara", Cuisine |-> "Italian",
        Ingredients |-> << Pasta, Eggs, Cheese, Bacon >>,
        PrepTime |-> 20, Difficulty |-> "Medium", Rating |-> 450],
       [name |-> "Chicken Tikka Masala", Cuisine |-> "Indian",
        Ingredients |-> << Chicken, Yogurt, Spices, TomatoSauce >>,
        PrepTime |-> 45, Difficulty |-> "Hard", Rating |-> 480],
       [name |-> "Avocado Toast", Cuisine |-> "American",
        Ingredients |-> << Bread, Avocado, Salt, Pepper >>,
        PrepTime |-> 5, Difficulty |-> "Easy", Rating |-> 370] >>

SeedNames == {Seeds[i].name : i \in DOMAIN Seeds}

initialize_data_always(has, df) == Seeds

\* if 'recipes' not in st.session_state: st.session_state.recipes = <seeds>
initialize_data(has, df) == IF has THEN df ELSE Seeds

---------------------------------------------------------------------------
(* Table helpers *)

Names(df) == {df[i].name : i \in DOMAIN df}

Row(df, n) == df[CHOOSE i \in DOMAIN df : df[i].name = n]

RowSet(df) == {df[i] : i \in DOMAIN df}

Range(q) == {q[i] : i \in DOMAIN q}

loc_set_append(df, n, row) == Append(df, row)

loc_set_replace_all(df, n, row) == << row >>

\* df.loc[n] = row: overwrite the row labelled n in place, else append one.
loc_set(df, n, row) ==
    IF n \in Names(df)
    THEN [i \in DOMAIN df |-> IF df[i].name = n THEN row ELSE df[i]]
    ELSE Append(df, row)

---------------------------------------------------------------------------
(* create_ingredient_cloud: WordCloud(...).generate(text) *)

\* \w of the default token pattern \w[\w']*, over the model's alphabet
WordChar(c) == c \notin {" ", ","}

\* re.findall(pattern, text): the maximal runs of word characters
RECURSIVE findall_from(_, _)
findall_from(s, cur) ==
    IF s = << >> THEN (IF cur = << >> THEN << >> ELSE << cur >>)
    ELSE IF WordChar(Head(s)) THEN findall_from(Tail(s), Append(cur, Head(s)))
    ELSE (IF cur = << >> THEN << >> ELSE << cur >>) \o findall_from(Tail(s), << >>)

findall(text) == findall_from(text, << >>)

\* The entries of wordcloud.STOPWORDS that the model's texts can spell.
StopWords == { << "a" >> }

\* WordCloud.process_text: tokens that are not stopwords
process_text(text) ==
    SelectSeq(findall(text), LAMBDA w : w \notin StopWords)

\* ' '.join([' '.join(items) for items in df['Ingredients']])
ingredient_text(df) ==
    join([i \in DOMAIN df |-> join(df[i].Ingredients, " ")], " ")

create_ingredient_cloud_blank(df) == "image"

\* generate() raises ValueError ("We need at least 1 word to plot a word
\* cloud") when the text yields no word; the code does not catch it.
create_ingredient_cloud(df) ==
    IF process_text(ingredient_text(df)) = << >> THEN "ValueError" ELSE "image"

---------------------------------------------------------------------------
(* Widgets: the values a control can yield, drawn from a set of samples *)

\* st.slider("Maximum Prep Time (mins)", 5, 120, 60)
max_time_slider_wide(samples) == {s \in samples : 5 <= s /\ s <= 240}

max_time_slider(samples) == {s \in samples : 5 <= s /\ s <= 120}

\* st.slider("Minimum Rating", 1.0, 5.0, 3.0) and st.slider("Rating", 1.0, 5.0, 3.0)
rating_slider(samples) == {s \in samples : 100 <= s /\ s <= 500}

\* st.number_input("Prep Time (minutes)", 1, 240)
number_input_from_zero(samples) == {s \in samples : 0 <= s /\ s <= 240}

number_input(samples) == {s \in samples : 1 <= s /\ s <= 240}

\* st.radio("Navigation", [...]): the first run of a session has index 0.
Modes == {"Recipe Explorer", "Smart Search", "Add Recipe", "Food Analytics"}

radio(m) == m \in Modes /\ (has_recipes \/ m = "Recipe Explorer")

NoSearch == [max_time |-> 0, min_rating |-> 0, difficulty |-> {}]

NoForm == [name |-> "", cuisine |-> "", ingredients |-> << >>,
           prep_time |-> 0, difficulty |-> "", rating |-> 0]

\* Python's order of the cuisine strings the model uses
CuisineOrder == << "American", "Indian", "Italian", "Y" >>

\* sorted(df['Cuisine'].unique())
sorted_cuisines(df) ==
    SelectSeq(CuisineOrder, LAMBDA c : \E i \in DOMAIN df : df[i].Cuisine = c)

---------------------------------------------------------------------------
(* Mode handlers; df is the table after initialize_data() *)

handle_recipe_explorer(df, sel) ==
    /\ sel \in {sorted_cuisines(df)[k] : k \in DOMAIN sorted_cuisines(df)}
    /\ has_recipes \/ sel = sorted_cuisines(df)[1]      \* index=0
    /\ selected_cuisine' = sel
    /\ cards' = SelectSeq(df, LAMBDA r : r.Cuisine = sel)
    /\ cloud' = create_ingredient_cloud(df)
    /\ recipes' = df
    /\ message' = "none"
    /\ charts' = << >>
    /\ search' = NoSearch
    /\ form' = NoForm
    /\ submitted' = FALSE

smart_mask_strict(r, s) ==
    /\ r.PrepTime < s.max_time
    /\ r.Rating > s.min_rating
    /\ r.Difficulty \in s.difficulty

smart_mask_no_difficulty(r, s) ==
    /\ r.PrepTime <= s.max_time
    /\ r.Rating >= s.min_rating

\* (Prep Time <= max_time) & (Rating >= min_rating) & Difficulty.isin(difficulty)
smart_mask(r, s) ==
    /\ r.PrepTime <= s.max_time
    /\ r.Rating >= s.min_rating
    /\ r.Difficulty \in s.difficulty

handle_smart_search_assigning(df, s) ==
    LET filtered == SelectSeq(df, LAMBDA r : smart_mask(r, s))
    IN  /\ search' = s
        /\ cards' = filtered
        /\ message' = IF filtered /= << >> THEN "found" ELSE "warning"
        /\ recipes' = filtered
        /\ cloud' = "none"
        /\ charts' = << >>
        /\ selected_cuisine' = ""
        /\ form' = NoForm
        /\ submitted' = FALSE

handle_smart_search(df, s) ==
    LET filtered == SelectSeq(df, LAMBDA r : smart_mask(r, s))
    IN  /\ search' = s
        /\ cards' = filtered
        /\ message' = IF filtered /= << >> THEN "found" ELSE "warning"
        /\ recipes' = df
        /\ cloud' = "none"
        /\ charts' = << >>
        /\ selected_cuisine' = ""
        /\ form' = NoForm
        /\ submitted' = FALSE

valid_either(f) == f.name /= "" \/ f.cuisine /= ""

\* if name and cuisine:
valid(f) == f.name /= "" /\ f.cuisine /= ""

new_recipe_unstripped(f) ==
    [name |-> f.name, Cuisine |-> f.cuisine,
     Ingredients |-> split(f.ingredients, ","),
     PrepTime |-> f.prep_time, Difficulty |-> f.difficulty, Rating |-> f.rating]

new_recipe(f) ==
    [name |-> f.name, Cuisine |-> f.cuisine,
     Ingredients |-> parse_ingredients(f.ingredients),
     PrepTime |-> f.prep_time, Difficulty |-> f.difficulty, Rating |-> f.rating]

\* The form is shown and the submit button was not pressed in this run.
show_add_recipe(df) ==
    /\ form' = NoForm
    /\ submitted' = FALSE
    /\ recipes' = df
    /\ message' = "none"
    /\ cards' = << >>
    /\ cloud' = "none"
    /\ charts' = << >>
    /\ selected_cuisine' = ""
    /\ search' = NoSearch

handle_add_recipe(df, f) ==
    /\ valid(f) /\ f.name \notin Names(df) => Len(df) < MaxRecipes
    /\ form' = f
    /\ submitted' = TRUE
    /\ IF valid(f)
       THEN /\ recipes' = loc_set(df, f.name, new_recipe(f))
            /\ message' = "success"
       ELSE /\ recipes' = df
            /\ message' = "error"
    /\ cards' = << >>
    /\ cloud' = "none"
    /\ charts' = << >>
    /\ selected_cuisine' = ""
    /\ search' = NoSearch

handle_analytics(df) ==
    /\ charts' = << "hist", "bar" >>
    /\ cloud' = create_ingredient_cloud(df)
    /\ recipes' = df
    /\ message' = "none"
    /\ cards' = << >>
    /\ selected_cuisine' = ""
    /\ search' = NoSearch
    /\ form' = NoForm
    /\ submitted' = FALSE

---------------------------------------------------------------------------
(* main(): one re-execution of the script *)

main_explorer(sel) ==
    /\ radio("Recipe Explorer")
    /\ mode' = "Recipe Explorer"
    /\ has_recipes' = TRUE
    /\ handle_recipe_explorer(initialize_data(has_recipes, recipes), sel)

main_search(s) ==
    /\ radio("Smart Search")
    /\ mode' = "Smart Search"
    /\ has_recipes' = TRUE
    /\ handle_smart_search(initialize_data(has_recipes, recipes), s)

main_add_shown ==
    /\ radio("Add Recipe")
    /\ mode' = "Add Recipe"
    /\ has_recipes' = TRUE
    /\ show_add_recipe(initialize_data(has_recipes, recipes))

main_add_submit(f) ==
    /\ radio("Add Recipe")
    /\ mode' = "Add Recipe"
    /\ has_recipes' = TRUE
    /\ handle_add_recipe(initialize_data(has_recipes, recipes), f)

main_analytics ==
    /\ radio("Food Analytics")
    /\ mode' = "Food Analytics"
    /\ has_recipes' = TRUE
    /\ handle_analytics(initialize_data(has_recipes, recipes))

Init ==
    /\ has_recipes = FALSE
    /\ recipes = << >>
    /\ mode = ""
    /\ selected_cuisine = ""
    /\ search = NoSearch
    /\ form = NoForm
    /\ submitted = FALSE
    /\ cards = << >>
    /\ message = "none"
    /\ cloud = "none"
    /\ charts = << >>

---------------------------------------------------------------------------
(* Inputs.  Spec varies the numeric fields and the search controls;       *)
(* SpecText varies the ingredient text and lets every seed be overwritten. *)

ExampleText == << "a", ",", " ", "b", " ", ",", "c" >>

IngredientTexts == { << >>, ExampleText, << "a" >> }

NewNames == {"X", "Z"}

Forms ==
    [name : {""} \cup NewNames,
     cuisine : {"", "Y"},
     ingredients : {ExampleText},
     prep_time : number_input({0, 1, 121, 241}),
     difficulty : Difficulties,
     rating : rating_slider({99, 100, 500, 501})]

Searches ==
    [max_time : max_time_slider({4, 5, 20, 120, 121}),
     min_rating : rating_slider({100, 450, 500}),
     difficulty : SUBSET Difficulties]

TextForms ==
    [name : {""} \cup SeedNames \cup NewNames,
     cuisine : {"", "Y"},
     ingredients : IngredientTexts,
     prep_time : number_input({10}),
     difficulty : {"Easy"},
     rating : rating_slider({400})]

TextSearches ==
    [max_time : max_time_slider({60}),
     min_rating : rating_slider({300}),
     difficulty : {{}, {"Easy", "Medium"}}]

Next ==
    \/ \E sel \in Range(CuisineOrder) : main_explorer(sel)
    \/ \E s \in Searches : main_search(s)
    \/ main_add_shown
    \/ \E f \in Forms : main_add_submit(f)
    \/ main_analytics

NextText ==
    \/ \E sel \in Range(CuisineOrder) : main_explorer(sel)
    \/ \E s \in TextSearches : main_search(s)
    \/ main_add_shown
    \/ \E f \in TextForms : main_add_submit(f)
    \/ main_analytics

Spec == Init /\ [][Next]_vars

SpecText == Init /\ [][NextText]_vars

---------------------------------------------------------------------------
(* Properties *)

Submitted == mode = "Add Recipe" /\ submitted

\* C1: Smart Search shows exactly the stored rows with prep time <= ceiling,
\* rating >= floor and difficulty in the allowed set, both bounds inclusive,
\* each once.
C1_SmartSearchExact ==
    mode = "Smart Search" =>
        /\ \A r \in RowSet(recipes) :
               r \in Range(cards) <=>
                   /\ r.PrepTime <= search.max_time
                   /\ r.Rating >= search.min_rating
                   /\ r.Difficulty \in search.difficulty
        /\ Range(cards) \subseteq RowSet(recipes)
        /\ Cardinality(Range(cards)) = Len(cards)

\* A search that returns an added row whose rating equals the floor and a row
\* whose prep time equals the ceiling, and leaves a stored row out.
C1_Witness ==
    /\ mode = "Smart Search"
    /\ \E r \in Range(cards) :
           r.name \notin SeedNames /\ r.Rating = search.min_rating
    /\ \E r \in Range(cards) : r.PrepTime = search.max_time
    /\ \E r \in RowSet(recipes) : r \notin Range(cards)

\* C2: a submission with a blank name or a blank cuisine leaves the table as
\* it was and reports the validation error; another submission is possible.
C2_BlankRejected ==
    /\ [][(mode' = "Add Recipe" /\ submitted'
            /\ (form'.name = "" \/ form'.cuisine = ""))
          => (recipes' = recipes /\ message' = "error")]_vars
    /\ [](Submitted /\ message = "error"
            => ENABLED (\E f \in TextForms : valid(f) /\ main_add_submit(f)))

\* A rejected submission whose name is filled in and whose cuisine is blank,
\* made after a recipe had been added.
C2_Witness ==
    /\ Submitted
    /\ form.name = "Z" /\ form.cuisine = ""
    /\ message = "error"
    /\ "X" \in Names(recipes)

\* C3: a valid submission under an existing name keeps the number of rows,
\* sets that row's five columns to the submitted values and leaves the other
\* rows alone; names are unique in every state.
C3_Overwrite ==
    /\ [][(mode' = "Add Recipe" /\ submitted' /\ valid(form')
            /\ form'.name \in Names(recipes))
          => /\ Len(recipes') = Len(recipes)
             /\ \A i \in DOMAIN recipes :
                    IF recipes[i].name = form'.name
                    THEN /\ recipes'[i].name = form'.name
                         /\ recipes'[i].Cuisine = form'.cuisine
                         /\ recipes'[i].Ingredients
                                = parse_ingredients(form'.ingredients)
                         /\ recipes'[i].PrepTime = form'.prep_time
                         /\ recipes'[i].Difficulty = form'.difficulty
                         /\ recipes'[i].Rating = form'.rating
                    ELSE recipes'[i] = recipes[i]]_vars
    /\ [](Cardinality(Names(recipes)) = Len(recipes))

\* A seed and an earlier addition have both been overwritten.
C3_Witness ==
    /\ Submitted /\ message = "success"
    /\ form.name = "X"
    /\ Len(recipes) = 4
    /\ Row(recipes, "X").Ingredients = << << >> >>
    /\ Row(recipes, "Spaghetti Carbonara").Cuisine = "Y"

\* The k-th smallest element of a set of numbers
Kth(S, k) == CHOOSE x \in S : Cardinality({y \in S : y < x}) = k - 1

\* The text between the (k-1)-th and the k-th comma
Segment(text, k) ==
    LET commas == {i \in DOMAIN text : text[i] = ","}
        lo == IF k = 1 THEN 0 ELSE Kth(commas, k - 1)
        hi == IF k = Cardinality(commas) + 1 THEN Len(text) + 1
              ELSE Kth(commas, k)
    IN  SubSeq(text, lo + 1, hi - 1)

\* tok is seg without the whitespace at its two ends
TrimmedFrom(seg, tok) ==
    /\ tok = << >> \/ (tok[1] /= " " /\ tok[Len(tok)] /= " ")
    /\ \E i \in 0..Len(seg) :
           /\ i + Len(tok) <= Len(seg)
           /\ SubSeq(seg, i + 1, i + Len(tok)) = tok
           /\ \A j \in 1..Len(seg) :
                  (j <= i \/ j > i + Len(tok)) => seg[j] = " "

\* C4: after a successful submission the row under the submitted name holds
\* the submitted cuisine, prep time, difficulty and rating, and its
\* ingredients are the comma-separated pieces of the text, in order, each
\* without surrounding whitespace; "a, b ,c" is stored as a, b, c.
C4_StoredAsSubmitted ==
    (Submitted /\ message = "success") =>
        /\ form.name \in Names(recipes)
        /\ LET r == Row(recipes, form.name)
               n == Cardinality({i \in DOMAIN form.ingredients :
                                     form.ingredients[i] = ","}) + 1
           IN  /\ r.Cuisine = form.cuisine
               /\ r.PrepTime = form.prep_time
               /\ r.Difficulty = form.difficulty
               /\ r.Rating = form.rating
               /\ Len(r.Ingredients) = n
               /\ \A k \in 1..n :
                      TrimmedFrom(Segment(form.ingredients, k), r.Ingredients[k])
               /\ form.ingredients = ExampleText
                      => r.Ingredients = << << "a" >>, << "b" >>, << "c" >> >>

\* The specification's example: "X", "Y", "a, b ,c", 10, "Easy", 4.0.
C4_Witness ==
    /\ Submitted /\ message = "success"
    /\ form = [name |-> "X", cuisine |-> "Y", ingredients |-> ExampleText,
               prep_time |-> 10, difficulty |-> "Easy", rating |-> 400]
    /\ Row(recipes, "X").Ingredients = << << "a" >>, << "b" >>, << "c" >> >>

\* C5: with no difficulty allowed Smart Search shows no card and the
\* informational warning, whatever the other two controls are.
C5_EmptyDifficulty ==
    (mode = "Smart Search" /\ search.difficulty = {}) =>
        /\ cards = << >>
        /\ message = "warning"
        /\ cloud /= "ValueError"

\* The widest ceiling and lowest floor, over a table with an added row.
C5_Witness ==
    /\ mode = "Smart Search"
    /\ search = [max_time |-> 120, min_rating |-> 100, difficulty |-> {}]
    /\ Len(recipes) > 3
    /\ message = "warning"

\* C6: when the ingredient text of the table holds no word, the cloud is
\* rendered (empty or as a placeholder) and the run does not fail.
C6_CloudOverNoWords ==
    (mode \in {"Recipe Explorer", "Food Analytics"}
        /\ process_text(ingredient_text(recipes)) = << >>)
    => cloud = "image"

\* C7: only a successful submission changes the table, and no run removes a
\* name from it.
C7_OnlyAddMutates ==
    /\ [][(has_recipes /\ recipes' /= recipes)
          => (mode' = "Add Recipe" /\ submitted' /\ message' = "success")]_vars
    /\ [][has_recipes => Names(recipes) \subseteq Names(recipes')]_vars

\* A search that showed only part of a table holding an added row.
C7_Witness ==
    /\ mode = "Smart Search"
    /\ Len(recipes) > 3
    /\ cards /= << >>
    /\ Len(cards) < Len(recipes)

\* C8: the first run creates the table as the three seeds; every later run
\* keeps the table it finds, so a row is still there, unchanged, unless that
\* very run overwrote it.
C8_CreatedOnce ==
    /\ [][~has_recipes => (has_recipes' /\ recipes' = Seeds)]_vars
    /\ [][has_recipes =>
            /\ has_recipes'
            /\ \A r \in RowSet(recipes) :
                   \/ r \in RowSet(recipes')
                   \/ /\ mode' = "Add Recipe" /\ submitted'
                      /\ message' = "success" /\ form'.name = r.name]_vars
    /\ [](has_recipes => SeedNames \subseteq Names(recipes))

\* A later run in another mode still sees an added row and an overwritten seed.
C8_Witness ==
    /\ mode = "Food Analytics"
    /\ "X" \in Names(recipes)
    /\ Row(recipes, "Avocado Toast").Cuisine = "Y"
    /\ Row(recipes, "Avocado Toast").Ingredients = << << "a" >> >>

\* C9: every stored row has a positive prep time, a difficulty among Easy,
\* Medium and Hard, and a rating from 1.0 to 5.0.
C9_DataModel ==
    \A r \in RowSet(recipes) :
        /\ r.PrepTime \in Nat /\ r.PrepTime >= 1
        /\ r.Difficulty \in {"Easy", "Medium", "Hard"}
        /\ 100 <= r.Rating /\ r.Rating <= 500

\* Added rows at the ends of the form's ranges.
C9_Witness ==
    /\ \E r \in RowSet(recipes) :
           r.name \notin SeedNames /\ r.PrepTime = 1 /\ r.Rating = 500
    /\ Len(recipes) = 4

\* C10: Smart Search never shows a row with prep time above 120, and a row
\* with prep time below 5 is shown whenever its rating and difficulty pass.
C10_SliderRange ==
    mode = "Smart Search" =>
        /\ \A r \in Range(cards) : r.PrepTime <= 120
        /\ \A r \in RowSet(recipes) :
               (r.PrepTime < 5 /\ r.Rating >= search.min_rating
                   /\ r.Difficulty \in search.difficulty)
               => r \in Range(cards)

\* The ceiling at its highest: a 121-minute row that passes the other two
\* conditions is left out.
C10_Witness ==
    /\ mode = "Smart Search"
    /\ search.max_time = 120
    /\ \E r \in RowSet(recipes) :
           /\ r.PrepTime = 121
           /\ r.Rating >= search.min_rating
           /\ r.Difficulty \in search.difficulty
           /\ r \notin Range(cards)
    /\ cards /= << >>

===========================================================================
